---- MODULE Spec2Model ----
(***************************************************************************)
(* Model of sway-lsp/src/server_state.rs: the compilation worker thread,   *)
(* the request channel, wait_for_parsing, shutdown_server and the session  *)
(* registry (Sessions).                                                    *)
(***************************************************************************)
EXTENDS Integers, Sequences, FiniteSets, TLC

\* ---------------------------------------------------------------- bounds
MaxEnqueues == 2        \* number of compile requests the handlers send
NumWaiters == 1         \* request tasks calling wait_for_parsing (besides shutdown)
NumSessions == 2        \* sessions opened in the registry when the server runs
NumCallers == 2         \* request tasks calling url_to_session
MaxCreated == 2         \* Session::new calls the registry runs may make
MaxPublishes == 2       \* calls of publish_diagnostics

\* ------------------------------------------------------ program constants
NumWorkers == 1         \* Default::default spawns one compilation thread
TwoSlots == 1 + 1

Capacity == 1           \* crossbeam_channel::bounded(1)
GcInterval == 10        \* version % 10 == 0

NoVersion == <<>>       \* ctx.version = None; Some(v) is <<v>>
NoSession == 0          \* no Arc<Session> (an absent map entry, an unset local)


\* ------------------------------------------------------------ value sets
TwoWorkers == 1..(NumWorkers + 1)

\* line 56: the compilation threads the server spawns
Workers == 1..NumWorkers
Waiters == 1..NumWaiters
ShutdownTask == 0       \* the task that calls shutdown_server
Tasks == Waiters \cup {ShutdownTask}
SessionIds == 1..NumSessions
Roots == 1..NumSessions

\* Option<i32> values the handlers put into CompilationContext.version
Versions == {NoVersion, <<-10>>, <<5>>, <<10>>}

\* Engines, as far as the worker distinguishes snapshots: which compile
\* produced the content (ver, 0 = initial) and whether garbage collection
\* has pruned it (collected).  The two fields are the parts a non-atomic
\* write or read could mix.
InitialEngines == [ver |-> 0, collected |-> FALSE]

Terminate == [kind |-> "Terminate"]

CompilationContext(s, v, id) ==
    [kind |-> "CompilationContext", session |-> s, version |-> v, id |-> id]

NoContext == CompilationContext(NoSession, NoVersion, 0)

VARIABLES
    queue,                  \* the channel cb_tx / cb_rx
    is_compiling,           \* AtomicBool
    retrigger_compilation,  \* AtomicBool
    last_compilation_state, \* LastCompilationState
    subscribed,             \* tasks registered in finished_compilation (Notify)
    wpc,                    \* position of each worker thread in its loop
    wctx,                   \* the worker's ctx
    engines_clone,          \* the worker's engines_clone
    parse_result,           \* the worker's parse_result (0 = default)
    engines,                \* session.engines of every session
    rw,                     \* the RwLock around session.engines
    session_result,         \* what write_parse_result stored in the session
    session_shutdown,       \* number of Session::shutdown calls per session
    pc,                     \* position of each request task
    nenq,                   \* compile requests sent so far
    rd_pc, rd_session, rd_obs,  \* a request task reading session.engines
    pre_engines,            \* history: live engines when the request was dequeued
    pre_result,             \* history: the session's stored result at that time
    gc_calls,               \* history: outcomes of garbage_collect for the request
    published,              \* history: snapshots that have been live, per session
    sessions,               \* Sessions: DashMap<PathBuf, Arc<Session>>
    shard_writer,           \* caller holding the DashMap shard's write lock, or 0
    created,                \* number of Session::new calls so far
    initialized,            \* sessions whose Session::init has completed
    us_pc, us_root, us_new,     \* url_to_session callers: position, locals
    us_uri,                     \* the workspace_uri argument of their call
    us_ret, us_err,             \* their last result: Ok(session) or Err(error)
    client,                 \* ServerState.client is Some(..)
    config,                 \* ServerState.config, the parts diagnostics() reads
    client_published,       \* history: the lists the client was sent
    publish_calls           \* history: calls of publish_diagnostics so far

compVars ==
    <<queue, is_compiling, retrigger_compilation, last_compilation_state,
      subscribed, wpc, wctx, engines_clone, parse_result, engines, rw,
      session_result, session_shutdown, pc, nenq, rd_pc, rd_session, rd_obs,
      pre_engines, pre_result, gc_calls, published>>

regVars ==
    <<sessions, shard_writer, created, initialized, us_pc, us_root, us_new,
      us_uri, us_ret, us_err>>

diagVars == <<client, config, client_published, publish_calls>>

vars == <<compVars, regVars, diagVars>>

\* ------------------------------------------------------- pure operations
\* Rust's % on i32: the remainder takes the sign of the dividend.
RustRem(a, b) == IF a >= 0 THEN a % b ELSE -((-a) % b)

NeedsGcAnyVersion(v) == v # NoVersion

\* lines 114-116: if let Some(version) = ctx.version { if version % 10 == 0
NeedsGc(v) == v # NoVersion /\ RustRem(v[1], GcInterval) = 0

\* session.garbage_collect(&mut engines_clone): Ok prunes the copy, Err
\* leaves it as it was.
GarbageCollect(e, ok) == IF ok THEN [e EXCEPT !.collected = TRUE] ELSE e

\* rx.is_empty()
IsEmpty == queue = <<>>

\* RwLock::read is granted unless a writer holds the lock.
CanRead(s) == ~rw[s].writer

CanWriteIgnoringReaders(s) == ~rw[s].writer

\* RwLock::write is granted when nobody holds the lock.
CanWrite(s) == rw[s].readers = 0 /\ ~rw[s].writer

\* ----------------------------------------------------------------- Init
InitCompilation ==
    /\ queue = <<>>
    /\ is_compiling = FALSE
    /\ retrigger_compilation = FALSE
    /\ last_compilation_state = "Uninitialized"
    /\ subscribed = {}
    /\ wpc = [w \in Workers |-> "recv"]
    /\ wctx = [w \in Workers |-> NoContext]
    /\ engines_clone = [w \in Workers |-> InitialEngines]
    /\ parse_result = [w \in Workers |-> 0]
    /\ engines = [s \in SessionIds |-> InitialEngines]
    /\ rw = [s \in SessionIds |-> [readers |-> 0, writer |-> FALSE]]
    /\ session_result = [s \in SessionIds |-> 0]
    /\ session_shutdown = [s \in SessionIds |-> 0]
    /\ pc = [t \in Tasks |-> "idle"]
    /\ nenq = 0
    /\ rd_pc = "idle"
    /\ rd_session = NoSession
    /\ rd_obs = InitialEngines
    /\ pre_engines = [w \in Workers |-> InitialEngines]
    /\ pre_result = [w \in Workers |-> 0]
    /\ gc_calls = [w \in Workers |-> <<>>]
    /\ published = [s \in SessionIds |-> {InitialEngines}]


\* ------------------------------------------------- the compilation thread
\* Everything a worker step leaves alone besides the fields it names.
WorkerFrame ==
    /\ UNCHANGED <<session_shutdown, pc, nenq, rd_pc, rd_session, rd_obs>>
    /\ UNCHANGED <<regVars, diagVars>>

WorkerRecvIgnoresTerminate(w) ==
    /\ wpc[w] = "recv"
    /\ queue # <<>>
    /\ queue' = Tail(queue)
    /\ IF Head(queue).kind = "Terminate"
         THEN UNCHANGED <<wpc, wctx, pre_engines, pre_result, gc_calls>>
         ELSE /\ wpc' = [wpc EXCEPT ![w] = "clone"]
              /\ wctx' = [wctx EXCEPT ![w] = Head(queue)]
              /\ pre_engines' =
                    [pre_engines EXCEPT ![w] = engines[Head(queue).session]]
              /\ pre_result' =
                    [pre_result EXCEPT ![w] = session_result[Head(queue).session]]
              /\ gc_calls' = [gc_calls EXCEPT ![w] = <<>>]
    /\ UNCHANGED <<is_compiling, retrigger_compilation, last_compilation_state,
                   subscribed, engines_clone, parse_result, engines, rw,
                   session_result, published>>
    /\ WorkerFrame

\* line 107-111, 157-160: rx.recv() and the match on the message
WorkerRecv(w) ==
    /\ wpc[w] = "recv"
    /\ queue # <<>>
    /\ queue' = Tail(queue)
    /\ IF Head(queue).kind = "Terminate"
         THEN /\ wpc' = [wpc EXCEPT ![w] = "exited"]
              /\ UNCHANGED <<wctx, pre_engines, pre_result, gc_calls>>
         ELSE /\ wpc' = [wpc EXCEPT ![w] = "clone"]
              /\ wctx' = [wctx EXCEPT ![w] = Head(queue)]
              /\ pre_engines' =
                    [pre_engines EXCEPT ![w] = engines[Head(queue).session]]
              /\ pre_result' =
                    [pre_result EXCEPT ![w] = session_result[Head(queue).session]]
              /\ gc_calls' = [gc_calls EXCEPT ![w] = <<>>]
    /\ UNCHANGED <<is_compiling, retrigger_compilation, last_compilation_state,
                   subscribed, engines_clone, parse_result, engines, rw,
                   session_result, published>>
    /\ WorkerFrame

\* line 112: let mut engines_clone = session.engines.read().clone();
\* lines 114-116 choose whether garbage collection comes next.
WorkerClone(w) ==
    /\ wpc[w] = "clone"
    /\ CanRead(wctx[w].session)
    /\ engines_clone' = [engines_clone EXCEPT ![w] = engines[wctx[w].session]]
    /\ wpc' = [wpc EXCEPT ![w] =
                  IF NeedsGc(wctx[w].version) THEN "gc" ELSE "set_compiling"]
    /\ UNCHANGED <<queue, is_compiling, retrigger_compilation,
                   last_compilation_state, subscribed, wctx, parse_result,
                   engines, rw, session_result, pre_engines, pre_result, gc_calls, published>>
    /\ WorkerFrame

WorkerGcFatal(w) ==
    /\ wpc[w] = "gc"
    /\ \E ok \in BOOLEAN :
          /\ engines_clone' =
                [engines_clone EXCEPT ![w] = GarbageCollect(engines_clone[w], ok)]
          /\ gc_calls' = [gc_calls EXCEPT ![w] = Append(@, ok)]
          /\ wpc' = [wpc EXCEPT ![w] =
                        IF ok THEN "set_compiling" ELSE "set_failed"]
    /\ UNCHANGED <<queue, is_compiling, retrigger_compilation,
                   last_compilation_state, subscribed, wctx, parse_result,
                   engines, rw, session_result, pre_engines, pre_result, published>>
    /\ WorkerFrame

WorkerGcInPlace(w) ==
    /\ wpc[w] = "gc"
    /\ \E ok \in BOOLEAN :
          /\ engines' = [engines EXCEPT ![wctx[w].session] =
                            GarbageCollect(engines[wctx[w].session], ok)]
          /\ gc_calls' = [gc_calls EXCEPT ![w] = Append(@, ok)]
    /\ wpc' = [wpc EXCEPT ![w] = "set_compiling"]
    /\ UNCHANGED <<queue, is_compiling, retrigger_compilation,
                   last_compilation_state, subscribed, wctx, parse_result,
                   engines_clone, rw, session_result, pre_engines, pre_result, published>>
    /\ WorkerFrame

\* lines 117-124: session.garbage_collect(&mut engines_clone), Ok or Err
WorkerGc(w) ==
    /\ wpc[w] = "gc"
    /\ \E ok \in BOOLEAN :
          /\ engines_clone' =
                [engines_clone EXCEPT ![w] = GarbageCollect(engines_clone[w], ok)]
          /\ gc_calls' = [gc_calls EXCEPT ![w] = Append(@, ok)]
    /\ wpc' = [wpc EXCEPT ![w] = "set_compiling"]
    /\ UNCHANGED <<queue, is_compiling, retrigger_compilation,
                   last_compilation_state, subscribed, wctx, parse_result,
                   engines, rw, session_result, pre_engines, pre_result, published>>
    /\ WorkerFrame

WorkerSetCompilingNoStore(w) ==
    /\ wpc[w] = "set_compiling"
    /\ parse_result' = [parse_result EXCEPT ![w] = 0]
    /\ wpc' = [wpc EXCEPT ![w] = "parse"]
    /\ UNCHANGED <<queue, is_compiling, retrigger_compilation,
                   last_compilation_state, subscribed, wctx, engines_clone,
                   engines, rw, session_result, pre_engines, pre_result,
                   gc_calls, published>>
    /\ WorkerFrame

\* lines 129-131: is_compiling.store(true); parse_result = default; the call
\* of session::parse_project starts.
WorkerSetCompiling(w) ==
    /\ wpc[w] = "set_compiling"
    /\ is_compiling' = TRUE
    /\ parse_result' = [parse_result EXCEPT ![w] = 0]
    /\ wpc' = [wpc EXCEPT ![w] = "parse"]
    /\ UNCHANGED <<queue, retrigger_compilation, last_compilation_state,
                   subscribed, wctx, engines_clone, engines, rw,
                   session_result, pre_engines, pre_result, gc_calls, published>>
    /\ WorkerFrame

\* lines 131-137: parse_project returns Ok; it has filled the working copy
\* and parse_result with the outcome of this compile.
WorkerParseOk(w) ==
    /\ wpc[w] = "parse"
    /\ engines_clone' = [engines_clone EXCEPT ![w].ver = wctx[w].id]
    /\ parse_result' = [parse_result EXCEPT ![w] = wctx[w].id]
    /\ wpc' = [wpc EXCEPT ![w] = "swap"]
    /\ UNCHANGED <<queue, is_compiling, retrigger_compilation,
                   last_compilation_state, subscribed, wctx, engines, rw,
                   session_result, pre_engines, pre_result, gc_calls, published>>
    /\ WorkerFrame

\* lines 131-136, 142: parse_project returns Err (a compile error, or the
\* early exit when it saw retrigger_compilation set).
WorkerParseErr(w) ==
    /\ wpc[w] = "parse"
    /\ wpc' = [wpc EXCEPT ![w] = "set_failed"]
    /\ UNCHANGED <<queue, is_compiling, retrigger_compilation,
                   last_compilation_state, subscribed, wctx, engines_clone,
                   parse_result, engines, rw, session_result, pre_engines, pre_result, gc_calls,
                   published>>
    /\ WorkerFrame

WorkerSwapBeginGlobalLock(w) ==
    LET s == wctx[w].session IN
    /\ wpc[w] = "swap"
    /\ CanWrite(s)
    /\ rw' = [t \in SessionIds |-> [rw[t] EXCEPT !.writer = TRUE]]
    /\ engines' = [engines EXCEPT ![s].ver = engines_clone[w].ver]
    /\ engines_clone' = [engines_clone EXCEPT ![w].ver = engines[s].ver]
    /\ wpc' = [wpc EXCEPT ![w] = "swapping"]
    /\ UNCHANGED <<queue, is_compiling, retrigger_compilation,
                   last_compilation_state, subscribed, wctx, parse_result,
                   session_result, pre_engines, pre_result, gc_calls, published>>
    /\ WorkerFrame

\* line 138: mem::swap(&mut *session.engines.write(), &mut engines_clone),
\* first half: the write lock is taken and the first part is exchanged.
WorkerSwapBegin(w) ==
    LET s == wctx[w].session IN
    /\ wpc[w] = "swap"
    /\ CanWrite(s)
    /\ rw' = [rw EXCEPT ![s].writer = TRUE]
    /\ engines' = [engines EXCEPT ![s].ver = engines_clone[w].ver]
    /\ engines_clone' = [engines_clone EXCEPT ![w].ver = engines[s].ver]
    /\ wpc' = [wpc EXCEPT ![w] = "swapping"]
    /\ UNCHANGED <<queue, is_compiling, retrigger_compilation,
                   last_compilation_state, subscribed, wctx, parse_result,
                   session_result, pre_engines, pre_result, gc_calls, published>>
    /\ WorkerFrame

\* line 138, second half: the rest is exchanged and the write guard dropped.
WorkerSwapEnd(w) ==
    LET s == wctx[w].session
        e == [engines[s] EXCEPT !.collected = engines_clone[w].collected]
    IN
    /\ wpc[w] = "swapping"
    /\ engines' = [engines EXCEPT ![s] = e]
    /\ engines_clone' =
          [engines_clone EXCEPT ![w].collected = engines[s].collected]
    /\ rw' = [rw EXCEPT ![s].writer = FALSE]
    /\ published' = [published EXCEPT ![s] = @ \cup {e}]
    /\ wpc' = [wpc EXCEPT ![w] = "write_result"]
    /\ UNCHANGED <<queue, is_compiling, retrigger_compilation,
                   last_compilation_state, subscribed, wctx, parse_result,
                   session_result, pre_engines, pre_result, gc_calls>>
    /\ WorkerFrame

\* line 139: session.write_parse_result(&mut parse_result);
WorkerWriteResult(w) ==
    /\ wpc[w] = "write_result"
    /\ session_result' =
          [session_result EXCEPT ![wctx[w].session] = parse_result[w]]
    /\ wpc' = [wpc EXCEPT ![w] = "set_success"]
    /\ UNCHANGED <<queue, is_compiling, retrigger_compilation,
                   last_compilation_state, subscribed, wctx, engines_clone,
                   parse_result, engines, rw, pre_engines, pre_result, gc_calls, published>>
    /\ WorkerFrame

\* line 140: *last_compilation_state.write() = LastCompilationState::Success;
WorkerSetSuccess(w) ==
    /\ wpc[w] = "set_success"
    /\ last_compilation_state' = "Success"
    /\ wpc' = [wpc EXCEPT ![w] = "clear_compiling"]
    /\ UNCHANGED <<queue, is_compiling, retrigger_compilation, subscribed,
                   wctx, engines_clone, parse_result, engines, rw,
                   session_result, pre_engines, pre_result, gc_calls, published>>
    /\ WorkerFrame

WorkerSetFailedWritesResult(w) ==
    /\ wpc[w] = "set_failed"
    /\ session_result' =
          [session_result EXCEPT ![wctx[w].session] = parse_result[w]]
    /\ last_compilation_state' = "Failed"
    /\ wpc' = [wpc EXCEPT ![w] = "clear_compiling"]
    /\ UNCHANGED <<queue, is_compiling, retrigger_compilation, subscribed,
                   wctx, engines_clone, parse_result, engines, rw,
                   pre_engines, pre_result, gc_calls, published>>
    /\ WorkerFrame

\* line 143: *last_compilation_state.write() = LastCompilationState::Failed;
WorkerSetFailed(w) ==
    /\ wpc[w] = "set_failed"
    /\ last_compilation_state' = "Failed"
    /\ wpc' = [wpc EXCEPT ![w] = "clear_compiling"]
    /\ UNCHANGED <<queue, is_compiling, retrigger_compilation, subscribed,
                   wctx, engines_clone, parse_result, engines, rw,
                   session_result, pre_engines, pre_result, gc_calls, published>>
    /\ WorkerFrame

\* line 148: is_compiling.store(false, Ordering::SeqCst);
WorkerClearCompiling(w) ==
    /\ wpc[w] = "clear_compiling"
    /\ is_compiling' = FALSE
    /\ wpc' = [wpc EXCEPT ![w] = "clear_retrigger"]
    /\ UNCHANGED <<queue, retrigger_compilation, last_compilation_state,
                   subscribed, wctx, engines_clone, parse_result, engines, rw,
                   session_result, pre_engines, pre_result, gc_calls, published>>
    /\ WorkerFrame

\* line 149: retrigger_compilation.store(false, Ordering::SeqCst);
WorkerClearRetrigger(w) ==
    /\ wpc[w] = "clear_retrigger"
    /\ retrigger_compilation' = FALSE
    /\ wpc' = [wpc EXCEPT ![w] = "check_empty"]
    /\ UNCHANGED <<queue, is_compiling, last_compilation_state, subscribed,
                   wctx, engines_clone, parse_result, engines, rw,
                   session_result, pre_engines, pre_result, gc_calls, published>>
    /\ WorkerFrame

\* line 156: the match arm ends; ctx, engines_clone and parse_result go out
\* of scope and the loop returns to rx.recv().
EndOfIteration(w) ==
    /\ wpc' = [wpc EXCEPT ![w] = "recv"]
    /\ wctx' = [wctx EXCEPT ![w] = NoContext]
    /\ engines_clone' = [engines_clone EXCEPT ![w] = InitialEngines]
    /\ parse_result' = [parse_result EXCEPT ![w] = 0]
    /\ pre_engines' = [pre_engines EXCEPT ![w] = InitialEngines]
    /\ pre_result' = [pre_result EXCEPT ![w] = 0]
    /\ gc_calls' = [gc_calls EXCEPT ![w] = <<>>]

WorkerCheckEmptyAlwaysNotifies(w) ==
    /\ wpc[w] = "check_empty"
    /\ wpc' = [wpc EXCEPT ![w] = "notify"]
    /\ UNCHANGED <<wctx, engines_clone, parse_result, pre_engines, pre_result,
                   gc_calls>>
    /\ UNCHANGED <<queue, is_compiling, retrigger_compilation,
                   last_compilation_state, subscribed, engines, rw,
                   session_result, published>>
    /\ WorkerFrame

\* line 152: if rx.is_empty()
WorkerCheckEmpty(w) ==
    /\ wpc[w] = "check_empty"
    /\ IF IsEmpty
         THEN /\ wpc' = [wpc EXCEPT ![w] = "notify"]
              /\ UNCHANGED <<wctx, engines_clone, parse_result, pre_engines, pre_result, gc_calls>>
         ELSE EndOfIteration(w)
    /\ UNCHANGED <<queue, is_compiling, retrigger_compilation,
                   last_compilation_state, subscribed, engines, rw,
                   session_result, published>>
    /\ WorkerFrame

\* line 154: finished_compilation.notify_waiters() wakes every task that is
\* registered at this moment and stores no permit for later ones.
WorkerNotify(w) ==
    /\ wpc[w] = "notify"
    /\ subscribed' = {}
    /\ EndOfIteration(w)
    /\ UNCHANGED <<queue, is_compiling, retrigger_compilation,
                   last_compilation_state, engines, rw, session_result,
                   published>>
    /\ WorkerFrame

Worker(w) ==
    \/ WorkerRecv(w)
    \/ WorkerClone(w)
    \/ WorkerGc(w)
    \/ WorkerSetCompiling(w)
    \/ WorkerParseOk(w)
    \/ WorkerParseErr(w)
    \/ WorkerSwapBegin(w)
    \/ WorkerSwapEnd(w)
    \/ WorkerWriteResult(w)
    \/ WorkerSetSuccess(w)
    \/ WorkerSetFailed(w)
    \/ WorkerClearCompiling(w)
    \/ WorkerClearRetrigger(w)
    \/ WorkerCheckEmpty(w)
    \/ WorkerNotify(w)


\* ------------------------------------------------------ the request tasks
TaskFrame ==
    /\ UNCHANGED <<wpc, wctx, engines_clone, parse_result, engines, rw,
                   session_result, last_compilation_state, rd_pc, rd_session,
                   rd_obs, pre_engines, pre_result, gc_calls, published>>
    /\ UNCHANGED <<regVars, diagVars>>

\* The sessions a handler can hold: the values of the registry.
OpenSessions == {sessions[r] : r \in Roots} \ {NoSession}

\* enqueue: cb_tx.send(TaskMessage::CompilationContext(ctx)) on the bounded
\* channel; the send completes only when the slot is free.
Enqueue(s, v) ==
    /\ nenq < MaxEnqueues
    /\ Len(queue) < Capacity
    /\ queue' = Append(queue, CompilationContext(s, v, nenq + 1))
    /\ nenq' = nenq + 1
    /\ UNCHANGED <<is_compiling, retrigger_compilation, subscribed,
                   session_shutdown, pc>>
    /\ TaskFrame

\* a request task calls wait_for_parsing (line 171)
WaitCall(t) ==
    /\ t \in Waiters
    /\ pc[t] = "idle"
    /\ pc' = [pc EXCEPT ![t] = "load"]
    /\ UNCHANGED <<queue, is_compiling, retrigger_compilation, subscribed,
                   session_shutdown, nenq>>
    /\ TaskFrame

\* line 173: if !self.is_compiling.load(Ordering::SeqCst)
WaitLoad(t) ==
    /\ pc[t] = "load"
    /\ pc' = [pc EXCEPT ![t] = IF ~is_compiling THEN "check_empty" ELSE "subscribe"]
    /\ UNCHANGED <<queue, is_compiling, retrigger_compilation, subscribed,
                   session_shutdown, nenq>>
    /\ TaskFrame

\* Where a task continues when wait_for_parsing returns: shutdown_server
\* goes on to line 196, any other caller has its answer.
AfterWait(t) == IF t = ShutdownTask THEN "send_terminate" ELSE "returned"

\* lines 175-178: if self.cb_rx.is_empty() { break; }
WaitCheckEmpty(t) ==
    /\ pc[t] = "check_empty"
    /\ pc' = [pc EXCEPT ![t] = IF IsEmpty THEN AfterWait(t) ELSE "subscribe"]
    /\ UNCHANGED <<queue, is_compiling, retrigger_compilation, subscribed,
                   session_shutdown, nenq>>
    /\ TaskFrame

\* line 181: self.finished_compilation.notified() registers the task for
\* the next notify_waiters; .await suspends it.
WaitSubscribe(t) ==
    /\ pc[t] = "subscribe"
    /\ subscribed' = subscribed \cup {t}
    /\ pc' = [pc EXCEPT ![t] = "waiting"]
    /\ UNCHANGED <<queue, is_compiling, retrigger_compilation,
                   session_shutdown, nenq>>
    /\ TaskFrame

\* line 181-182: the task was notified; .await completes and the loop repeats
WaitWake(t) ==
    /\ pc[t] = "waiting"
    /\ t \notin subscribed
    /\ pc' = [pc EXCEPT ![t] = "load"]
    /\ UNCHANGED <<queue, is_compiling, retrigger_compilation, subscribed,
                   session_shutdown, nenq>>
    /\ TaskFrame

\* shutdown_server is called (line 185)
ShutdownCall ==
    /\ pc[ShutdownTask] = "idle"
    /\ pc' = [pc EXCEPT ![ShutdownTask] = "drain"]
    /\ UNCHANGED <<queue, is_compiling, retrigger_compilation, subscribed,
                   session_shutdown, nenq>>
    /\ TaskFrame

\* line 189: while self.cb_rx.try_recv().is_ok() {}, one try_recv
ShutdownDrain ==
    /\ pc[ShutdownTask] = "drain"
    /\ IF queue # <<>>
         THEN /\ queue' = Tail(queue)
              /\ UNCHANGED pc
         ELSE /\ pc' = [pc EXCEPT ![ShutdownTask] = "set_retrigger"]
              /\ UNCHANGED queue
    /\ UNCHANGED <<is_compiling, retrigger_compilation, subscribed,
                   session_shutdown, nenq>>
    /\ TaskFrame

\* lines 192-193: retrigger_compilation.store(true); wait_for_parsing() begins
ShutdownSetRetrigger ==
    /\ pc[ShutdownTask] = "set_retrigger"
    /\ retrigger_compilation' = TRUE
    /\ pc' = [pc EXCEPT ![ShutdownTask] = "load"]
    /\ UNCHANGED <<queue, is_compiling, subscribed, session_shutdown, nenq>>
    /\ TaskFrame

\* lines 196-198: self.cb_tx.send(TaskMessage::Terminate)
ShutdownSendTerminate ==
    /\ pc[ShutdownTask] = "send_terminate"
    /\ Len(queue) < Capacity
    /\ queue' = Append(queue, Terminate)
    /\ pc' = [pc EXCEPT ![ShutdownTask] = "teardown"]
    /\ UNCHANGED <<is_compiling, retrigger_compilation, subscribed,
                   session_shutdown, nenq>>
    /\ TaskFrame

\* lines 200-203: `let _ = self.sessions.iter().map(|item| ... shutdown())`.
\* Iterator::map is lazy and the adapter is dropped without being consumed,
\* so the closure runs for no item.
TeardownVisited == {}

\* lines 200-204: the sessions the closure ran for get Session::shutdown
ShutdownTeardown ==
    /\ pc[ShutdownTask] = "teardown"
    /\ session_shutdown' =
          [s \in SessionIds |->
              IF s \in TeardownVisited THEN session_shutdown[s] + 1
                                       ELSE session_shutdown[s]]
    /\ pc' = [pc EXCEPT ![ShutdownTask] = "done"]
    /\ UNCHANGED <<queue, is_compiling, retrigger_compilation, subscribed, nenq>>
    /\ TaskFrame

\* ------------------------------------------- a reader of session.engines
ReaderFrame ==
    /\ UNCHANGED <<queue, is_compiling, retrigger_compilation,
                   last_compilation_state, subscribed, wpc, wctx,
                   engines_clone, parse_result, engines, session_result,
                   session_shutdown, pc, nenq, pre_engines, pre_result, gc_calls, published>>
    /\ UNCHANGED <<regVars, diagVars>>

\* session.engines.read(): the read guard is taken
ReadLock(s) ==
    /\ rd_pc = "idle"
    /\ CanRead(s)
    /\ rw' = [rw EXCEPT ![s].readers = @ + 1]
    /\ rd_session' = s
    /\ rd_pc' = "read_ver"
    /\ UNCHANGED rd_obs
    /\ ReaderFrame

\* the reader looks at the first part of the snapshot
ReadVer ==
    /\ rd_pc = "read_ver"
    /\ rd_obs' = [rd_obs EXCEPT !.ver = engines[rd_session].ver]
    /\ rd_pc' = "read_collected"
    /\ UNCHANGED <<rw, rd_session>>
    /\ ReaderFrame

\* the reader looks at the rest and drops the read guard
ReadCollected ==
    /\ rd_pc = "read_collected"
    /\ rd_obs' = [rd_obs EXCEPT !.collected = engines[rd_session].collected]
    /\ rw' = [rw EXCEPT ![rd_session].readers = @ - 1]
    /\ rd_pc' = "idle"
    /\ UNCHANGED rd_session
    /\ ReaderFrame


\* --------------------------------------------------------- the registry
Callers == 1..NumCallers

\* Workspace URIs: r in Roots lies in project r; NoManifestUri lies in no
\* project; NoParentUri has a manifest whose path has no parent.
NoManifestUri == 0
NoParentUri == -1
Uris == Roots \cup {NoManifestUri, NoParentUri}

\* lines 279-291: PackageManifestFile::from_dir(&path), manifest.path().parent()
\* as <<error, directory>>, error "" when the directory was found
ManifestDir(uri) ==
    IF uri = NoManifestUri THEN <<"ManifestFileNotFound", 0>>
    ELSE IF uri = NoParentUri THEN <<"ManifestDirNotFound", 0>>
    ELSE <<"", uri>>

\* self.try_get(&key).try_unwrap(): Present gives the entry; Absent, and
\* Locked (a writer holds the shard), give None.
TryGet(root) == IF shard_writer # 0 THEN NoSession ELSE sessions[root]

InitRegistry ==
    /\ shard_writer = 0
    /\ us_pc = [c \in Callers |-> "idle"]
    /\ us_root = [c \in Callers |-> 0]
    /\ us_new = [c \in Callers |-> NoSession]
    /\ us_uri = [c \in Callers |-> NoManifestUri]
    /\ us_ret = [c \in Callers |-> NoSession]
    /\ us_err = [c \in Callers |-> ""]

\* Calls in progress that may still construct a Session.
MayCreate == Cardinality({c \in Callers : us_pc[c] \in {"try_get", "new"}})

\* lines 269-273, 278-291: uri_and_session_from_workspace(workspace_uri)
\* calls url_to_session(uri), here up to the manifest directory
UrlToSession(c, uri) ==
    /\ us_pc[c] = "idle"
    /\ Len(created) + MayCreate < MaxCreated
    /\ us_uri' = [us_uri EXCEPT ![c] = uri]
    /\ us_new' = [us_new EXCEPT ![c] = NoSession]
    /\ us_ret' = [us_ret EXCEPT ![c] = NoSession]
    /\ us_err' = [us_err EXCEPT ![c] = ManifestDir(uri)[1]]
    /\ IF ManifestDir(uri)[1] = ""
         THEN /\ us_root' = [us_root EXCEPT ![c] = ManifestDir(uri)[2]]
              /\ us_pc' = [us_pc EXCEPT ![c] = "try_get"]
         ELSE UNCHANGED <<us_root, us_pc>>
    /\ UNCHANGED <<sessions, shard_writer, created, initialized>>
    /\ UNCHANGED <<compVars, diagVars>>

\* lines 293-295: match self.try_get(&manifest_dir).try_unwrap()
UrlTryGet(c) ==
    /\ us_pc[c] = "try_get"
    /\ IF TryGet(us_root[c]) # NoSession
         THEN /\ us_ret' = [us_ret EXCEPT ![c] = TryGet(us_root[c])]
              /\ us_pc' = [us_pc EXCEPT ![c] = "translate"]
         ELSE /\ us_pc' = [us_pc EXCEPT ![c] = "new"]
              /\ UNCHANGED us_ret
    /\ UNCHANGED <<sessions, shard_writer, created, initialized, us_root, us_uri, us_new,
                   us_err>>
    /\ UNCHANGED <<compVars, diagVars>>

\* lines 297, 261: Sessions::init, let session = Arc::new(Session::new());
SessionNew(c) ==
    /\ us_pc[c] = "new"
    /\ created' = Append(created, us_root[c])
    /\ us_new' = [us_new EXCEPT ![c] = Len(created) + 1]
    /\ us_pc' = [us_pc EXCEPT ![c] = "init"]
    /\ UNCHANGED <<sessions, shard_writer, initialized, us_root, us_uri, us_ret, us_err>>
    /\ UNCHANGED <<compVars, diagVars>>

SessionInitAfterInsert(c) ==
    /\ us_pc[c] = "init"
    /\ \/ /\ initialized' = initialized \cup {us_new[c]}
          /\ us_pc' = [us_pc EXCEPT ![c] = "insert_lock"]
          /\ UNCHANGED <<us_err, sessions>>
       \/ /\ us_err' = [us_err EXCEPT ![c] = "InitError"]
          /\ us_pc' = [us_pc EXCEPT ![c] = "idle"]
          /\ sessions' = [sessions EXCEPT ![us_root[c]] = us_new[c]]
          /\ UNCHANGED initialized
    /\ UNCHANGED <<shard_writer, created, us_root, us_uri, us_new, us_ret>>
    /\ UNCHANGED <<compVars, diagVars>>

\* line 262: session.init(uri).await?, Ok(project_name) or Err
SessionInit(c) ==
    /\ us_pc[c] = "init"
    /\ \/ /\ initialized' = initialized \cup {us_new[c]}
          /\ us_pc' = [us_pc EXCEPT ![c] = "insert_lock"]
          /\ UNCHANGED us_err
       \/ /\ us_err' = [us_err EXCEPT ![c] = "InitError"]
          /\ us_pc' = [us_pc EXCEPT ![c] = "idle"]
          /\ UNCHANGED initialized
    /\ UNCHANGED <<sessions, shard_writer, created, us_root, us_uri, us_new, us_ret>>
    /\ UNCHANGED <<compVars, diagVars>>

\* line 263: self.insert(project_name, session) takes the shard's write lock
InsertLock(c) ==
    /\ us_pc[c] = "insert_lock"
    /\ shard_writer = 0
    /\ shard_writer' = c
    /\ us_pc' = [us_pc EXCEPT ![c] = "insert"]
    /\ UNCHANGED <<sessions, created, initialized, us_root, us_uri, us_new, us_ret,
                   us_err>>
    /\ UNCHANGED <<compVars, diagVars>>

\* line 263: the entry is written, replacing any entry of the key, and the
\* lock released
Insert(c) ==
    /\ us_pc[c] = "insert"
    /\ sessions' = [sessions EXCEPT ![us_root[c]] = us_new[c]]
    /\ shard_writer' = 0
    /\ us_pc' = [us_pc EXCEPT ![c] = "get_again"]
    /\ UNCHANGED <<created, initialized, us_root, us_uri, us_new, us_ret, us_err>>
    /\ UNCHANGED <<compVars, diagVars>>

\* lines 298-301: try_get again; .expect panics on None
UrlGetAgain(c) ==
    /\ us_pc[c] = "get_again"
    /\ IF TryGet(us_root[c]) # NoSession
         THEN /\ us_ret' = [us_ret EXCEPT ![c] = TryGet(us_root[c])]
              /\ us_pc' = [us_pc EXCEPT ![c] = "translate"]
         ELSE /\ us_pc' = [us_pc EXCEPT ![c] = "panicked"]
              /\ UNCHANGED us_ret
    /\ UNCHANGED <<sessions, shard_writer, created, initialized, us_root, us_uri, us_new,
                   us_err>>
    /\ UNCHANGED <<compVars, diagVars>>

\* line 274: session.sync.workspace_to_temp_url(workspace_uri)?, Ok(uri) or
\* Err; lines 275-276 return Ok((uri, session))
WorkspaceToTempUrl(c) ==
    /\ us_pc[c] = "translate"
    /\ us_pc' = [us_pc EXCEPT ![c] = "idle"]
    /\ \/ UNCHANGED <<us_ret, us_err>>
       \/ /\ us_err' = [us_err EXCEPT ![c] = "TranslateError"]
          /\ us_ret' = [us_ret EXCEPT ![c] = NoSession]
    /\ UNCHANGED <<sessions, shard_writer, created, initialized, us_root,
                   us_uri, us_new>>
    /\ UNCHANGED <<compVars, diagVars>>

\* ------------------------------------------------ publishing diagnostics
\* config.debug.show_collected_tokens_as_warnings, config.diagnostic
Configs ==
    [show_collected_tokens_as_warnings : {"Default", "Parsed", "Typed"},
     show_warnings : BOOLEAN, show_errors : BOOLEAN]

DefaultConfig ==
    [show_collected_tokens_as_warnings |-> "Default",
     show_warnings |-> TRUE, show_errors |-> TRUE]

Diagnostic(sev, src) == [severity |-> sev, source |-> src]

NoEntry == <<>>

\* session.diagnostics.read().get(path): no entry, or <<the file's entry>>
FileDiagnostics ==
    {NoEntry} \cup
    { <<[warnings |-> ws, errors |-> es]>> :
         ws \in {<<>>, <<Diagnostic("warning", "compiler")>>},
         es \in {<<>>, <<Diagnostic("error", "compiler")>>} }

\* session.token_map().tokens_for_file(uri)
FileTokens == {<<>>, <<"t1">>, <<"t1", "t2">>}

\* debug::generate_warnings_for_parsed_tokens / _typed_tokens: one warning
\* per token
GenerateWarnings(tokens, src) ==
    [i \in 1..Len(tokens) |-> Diagnostic("warning", src)]

\* lines 223-252: diagnostics(uri, session)
Diagnostics(entry, tokens) ==
    CASE config.show_collected_tokens_as_warnings = "Parsed"
            -> GenerateWarnings(tokens, "parsed_token")
      [] config.show_collected_tokens_as_warnings = "Typed"
            -> GenerateWarnings(tokens, "typed_token")
      [] OTHER ->
            IF entry = NoEntry THEN <<>>
            ELSE (IF config.show_warnings THEN entry[1].warnings ELSE <<>>)
                 \o (IF config.show_errors THEN entry[1].errors ELSE <<>>)

InitPublisher(cl, cfg) ==
    /\ client = cl
    /\ config = cfg
    /\ client_published = <<>>
    /\ publish_calls = 0

PublishDiagnosticsSkipsEmpty(entry, tokens) ==
    /\ publish_calls < MaxPublishes
    /\ publish_calls' = publish_calls + 1
    /\ IF client /\ Diagnostics(entry, tokens) # <<>>
         THEN client_published' =
                  Append(client_published, Diagnostics(entry, tokens))
         ELSE UNCHANGED client_published
    /\ UNCHANGED <<client, config>>
    /\ UNCHANGED <<compVars, regVars>>

\* lines 207-221: publish_diagnostics(uri, workspace_uri, session); the
\* file's entry and tokens are what the session holds for uri at the call
PublishDiagnostics(entry, tokens) ==
    /\ publish_calls < MaxPublishes
    /\ publish_calls' = publish_calls + 1
    /\ IF client
         THEN client_published' =
                  Append(client_published, Diagnostics(entry, tokens))
         ELSE UNCHANGED client_published
    /\ UNCHANGED <<client, config>>
    /\ UNCHANGED <<compVars, regVars>>

\* -------------------------------------------------------- specifications
\* The server after construction (Default::default): nothing opened yet.
InitSessions ==
    /\ InitCompilation
    /\ InitPublisher(TRUE, DefaultConfig)
    /\ InitRegistry
    /\ sessions = [r \in Roots |-> NoSession]
    /\ created = <<>>
    /\ initialized = {}

NextSessions ==
    \/ \E c \in Callers, uri \in Uris : UrlToSession(c, uri)
    \/ \E c \in Callers : UrlTryGet(c)
    \/ \E c \in Callers : SessionNew(c)
    \/ \E c \in Callers : SessionInit(c)
    \/ \E c \in Callers : InsertLock(c)
    \/ \E c \in Callers : Insert(c)
    \/ \E c \in Callers : UrlGetAgain(c)
    \/ \E c \in Callers : WorkspaceToTempUrl(c)

SpecSessions == InitSessions /\ [][NextSessions]_vars

\* The server with one project opened per root: session r was created,
\* initialized and inserted for root r by url_to_session.
Init ==
    /\ InitCompilation
    /\ InitPublisher(TRUE, DefaultConfig)
    /\ InitRegistry
    /\ sessions = [r \in Roots |-> r]
    /\ created = [i \in 1..NumSessions |-> i]
    /\ initialized = SessionIds

\* The worker, the handlers that enqueue, the tasks that wait and shutdown.
Next ==
    \/ \E w \in Workers : Worker(w)
    \/ \E s \in OpenSessions, v \in Versions : Enqueue(s, v)
    \/ \E t \in Tasks : WaitCall(t)
    \/ \E t \in Tasks : WaitLoad(t)
    \/ \E t \in Tasks : WaitCheckEmpty(t)
    \/ \E t \in Tasks : WaitSubscribe(t)
    \/ \E t \in Tasks : WaitWake(t)
    \/ ShutdownCall
    \/ ShutdownDrain
    \/ ShutdownSetRetrigger
    \/ ShutdownSendTerminate
    \/ ShutdownTeardown

Spec == Init /\ [][Next]_vars

\* The worker, the handlers that enqueue and shutdown_server with its own
\* wait_for_parsing; no other task waits.
NextWorker ==
    \/ \E w \in Workers : Worker(w)
    \/ \E s \in OpenSessions, v \in Versions : Enqueue(s, v)
    \/ WaitLoad(ShutdownTask)
    \/ WaitCheckEmpty(ShutdownTask)
    \/ WaitSubscribe(ShutdownTask)
    \/ WaitWake(ShutdownTask)
    \/ ShutdownCall
    \/ ShutdownDrain
    \/ ShutdownSetRetrigger
    \/ ShutdownSendTerminate
    \/ ShutdownTeardown

SpecWorker == Init /\ [][NextWorker]_vars

\* The worker and the handlers that enqueue, with a task reading engines.
NextReaders ==
    \/ \E w \in Workers : Worker(w)
    \/ \E s \in OpenSessions, v \in Versions : Enqueue(s, v)
    \/ \E s \in OpenSessions : ReadLock(s)
    \/ ReadVer
    \/ ReadCollected

SpecReaders == Init /\ [][NextReaders]_vars


\* The same system under the scheduling the runtime provides: the worker is
\* an OS thread that runs whenever it can take a step (every call of
\* parse_project returns), and a task that is ready to run is polled.
\* Handlers are not obliged to enqueue, wait or shut down.
\* A server built by ServerState::new(client) (lines 88-93) or by
\* Default::default (client: None, line 44), under any configuration.
InitDiagnostics ==
    /\ InitCompilation
    /\ InitRegistry
    /\ sessions = [r \in Roots |-> r]
    /\ created = [i \in 1..NumSessions |-> i]
    /\ initialized = SessionIds
    /\ \E cl \in BOOLEAN, cfg \in Configs : InitPublisher(cl, cfg)

NextDiagnostics ==
    \E entry \in FileDiagnostics, tokens \in FileTokens :
        PublishDiagnostics(entry, tokens)

SpecDiagnostics == InitDiagnostics /\ [][NextDiagnostics]_vars

Waiting(t) ==
    WaitLoad(t) \/ WaitCheckEmpty(t) \/ WaitSubscribe(t) \/ WaitWake(t)

ShuttingDown ==
    ShutdownDrain \/ ShutdownSetRetrigger \/ ShutdownSendTerminate
        \/ ShutdownTeardown

FairSpec ==
    /\ Init
    /\ [][Next]_vars
    /\ \A w \in Workers : WF_vars(Worker(w))
    /\ \A t \in Tasks : WF_vars(Waiting(t))
    /\ WF_vars(ShuttingDown)

\* ------------------------------------------------------------ properties
\* The worker holds a dequeued request that has not got past parse_project.
Unstarted(w) == wpc[w] \in {"clone", "gc", "set_compiling"}

\* The worker has dequeued a request and not yet reset is_compiling for it.
InFlight(w) ==
    wpc[w] \in {"clone", "gc", "set_compiling", "parse", "swap", "swapping",
                "write_result", "set_success", "set_failed", "clear_compiling"}

\* C1: at most one compile (one call of parse_project) is executing in
\* every reachable state, whatever the request tasks do.
C1_AtMostOneCompile == Cardinality({w \in Workers : wpc[w] = "parse"}) <= 1

\* a compile is executing while a request of another session is queued and
\* shutdown_server is waiting for idleness
C1_Witness ==
    \E w \in Workers :
        /\ wpc[w] = "parse"
        /\ queue # <<>>
        /\ Head(queue).kind = "CompilationContext"
        /\ Head(queue).session # wctx[w].session
        /\ pc[ShutdownTask] = "waiting"

\* C2: is_compiling is true exactly while the worker holds a dequeued
\* request it has not finished, clone and garbage collection included.
C2_FlagCoversRequest == is_compiling <=> \E w \in Workers : InFlight(w)

\* C3: at the step where wait_for_parsing returns, is_compiling is false
\* and the queue is empty.
C3_IdleAtReturn ==
    [][\A t \in Tasks :
          (pc[t] = "check_empty" /\ pc'[t] = AfterWait(t))
              => (~is_compiling' /\ queue' = <<>>)]_vars

\* C4: a caller of wait_for_parsing returns once the system stays idle.
\* Stated for the runs in which shutdown_server is not called.
C4_WaiterReturns ==
    \A t \in Waiters :
        ([](pc[ShutdownTask] = "idle") /\ <>[](~is_compiling /\ IsEmpty))
            => <>[](pc[t] \in {"idle", "returned"})

\* C8: when shutdown_server puts Terminate on the queue, the worker holds
\* no dequeued request whose clone, garbage collection or parse is in
\* progress or still to start.
C8_TerminateAfterIdle ==
    [][(pc[ShutdownTask] = "send_terminate" /\ pc'[ShutdownTask] = "teardown")
          => \A w \in Workers : ~Unstarted(w) /\ wpc[w] # "parse"]_vars

\* C9: shutdown_server called while a compile is in flight eventually
\* returns, with the worker out of its loop.
C9_ShutdownCompletes ==
    \A w \in Workers :
        (pc[ShutdownTask] = "drain" /\ wpc[w] = "parse")
            ~> (pc[ShutdownTask] = "done" /\ wpc[w] = "exited")

\* C10: when shutdown_server has returned, Session::shutdown has run once
\* on every session of the registry.
C10_AllSessionsShutDown ==
    pc[ShutdownTask] = "done"
        => \A s \in OpenSessions : session_shutdown[s] = 1


\* The worker is past a failed parse_project of its current request.
FailedRequest(w) ==
    \/ wpc[w] = "set_failed"
    \/ /\ wpc[w] \in {"clear_compiling", "clear_retrigger", "check_empty", "notify"}
       /\ last_compilation_state = "Failed"

\* What a reader has read is part of a snapshot that has been live, and
\* while a read guard is held the live value is complete and no writer is in.
C5_ReaderInv ==
    /\ (rd_pc = "idle" /\ rd_session # NoSession)
          => rd_obs \in published[rd_session]
    /\ rd_pc = "read_collected" => rd_obs.ver = engines[rd_session].ver
    /\ \A s \in SessionIds :
          rw[s].readers > 0 => (engines[s] \in published[s] /\ ~rw[s].writer)

\* The live engines change only in the two halves of the swap, with the
\* write lock held.
C5_SwapOnly ==
    \A s \in SessionIds :
        engines'[s] # engines[s]
            => \E w \in Workers :
                  /\ wctx[w].session = s
                  /\ \/ wpc[w] = "swap" /\ wpc'[w] = "swapping" /\ rw'[s].writer
                     \/ wpc[w] = "swapping" /\ wpc'[w] = "write_result" /\ rw[s].writer

\* C5: a reader of session.engines sees a complete snapshot, either the
\* value from before a compile or the working copy a successful compile
\* swapped in; the worker changes the live value only by that one swap under
\* the write lock, never in place during clone, garbage collection or parse.
C5_CompleteSnapshots == []C5_ReaderInv /\ [][C5_SwapOnly]_vars

\* a reader is in the middle of its read while the worker stands at the swap
\* with a working copy that differs from the live snapshot in both parts
C5_Witness ==
    /\ rd_pc = "read_collected"
    /\ \E w \in Workers :
          /\ wpc[w] = "swap"
          /\ wctx[w].session = rd_session
          /\ engines_clone[w].ver # engines[rd_session].ver
          /\ engines_clone[w].collected # engines[rd_session].collected

\* C6: when parse_project fails, the session's live engines are what they
\* were when the request was dequeued, also when garbage collection ran on
\* the working copy; nothing touches them before the outcome is known.
C6_FailureLeavesEngines ==
    \A w \in Workers :
        (FailedRequest(w) \/ Unstarted(w) \/ wpc[w] = "parse")
            => engines[wctx[w].session] = pre_engines[w]

\* parse_project failed on a working copy that garbage collection pruned,
\* for a session whose live engines came from an earlier successful compile
C6_Witness ==
    \E w \in Workers :
        /\ FailedRequest(w)
        /\ wpc[w] = "notify"
        /\ engines_clone[w].collected
        /\ ~engines[wctx[w].session].collected
        /\ engines[wctx[w].session].ver # 0

\* C7: url_to_session constructs at most one Session per root and every
\* caller gets the same handle for a root.
C7_OneSessionPerRoot ==
    /\ \A r \in Roots :
          Cardinality({i \in 1..Len(created) : created[i] = r}) <= 1
    /\ \A c1, c2 \in Callers :
          (us_ret[c1] # NoSession /\ us_ret[c2] # NoSession
              /\ us_root[c1] = us_root[c2]) => us_ret[c1] = us_ret[c2]

\* -------------------------------------------------------------- C11, C12
AllExited == \A w \in Workers : wpc[w] = "exited"

\* C11: Terminate is terminal.  The step that takes Terminate off the queue
\* is a worker's recv and leaves that worker exited; an exited worker stays
\* exited; and once the worker has exited nothing is dequeued any more, no
\* garbage collection or compile runs, is_compiling, retrigger_compilation,
\* last_compilation_state, the sessions' engines and stored results keep
\* their values and no registered waiter is woken, also when a request is
\* enqueued after the Terminate.
C11_TerminateIsTerminal ==
    [][ /\ \A w \in Workers : wpc[w] = "exited" => wpc'[w] = "exited"
        /\ (queue # <<>> /\ Head(queue).kind = "Terminate" /\ queue' # queue)
              => \E w \in Workers : wpc[w] = "recv" /\ wpc'[w] = "exited"
        /\ AllExited =>
              /\ \/ queue' = queue
                 \/ \E m \in {CompilationContext(s, v, nenq + 1) :
                                 s \in SessionIds, v \in Versions} :
                       queue' = Append(queue, m)
              /\ UNCHANGED <<is_compiling, retrigger_compilation,
                             last_compilation_state, engines, session_result,
                             engines_clone, parse_result, gc_calls, rw,
                             published>>
              /\ subscribed \subseteq subscribed'
      ]_vars

\* A request was enqueued after the worker took the Terminate and exited.
C11_Witness ==
    /\ AllExited
    /\ queue # <<>>
    /\ Head(queue).kind = "CompilationContext"

\* The point of the loop body after the garbage-collection decision.
AfterGcDecision ==
    {"set_compiling", "parse", "swap", "swapping", "write_result",
     "set_success", "set_failed", "clear_compiling", "clear_retrigger",
     "check_empty", "notify"}

Abs(n) == IF n < 0 THEN 0 - n ELSE n

MultipleOfInterval(n) == \E k \in (0 - Abs(n))..Abs(n) : n = GcInterval * k

\* C12: for every request, garbage collection runs exactly once when the
\* request carries a version that is a multiple of 10 of either sign (0, 10,
\* -10, ...), and not at all when it carries no version or a version that is
\* not divisible by 10.
C12_GcOnMultiplesOfTen ==
    \A w \in Workers :
        /\ Len(gc_calls[w]) <= 1
        /\ wpc[w] \in AfterGcDecision =>
              Len(gc_calls[w]) =
                  IF /\ wctx[w].version # NoVersion
                     /\ MultipleOfInterval(wctx[w].version[1])
                    THEN 1 ELSE 0

\* The request carried version -10 and garbage collection ran for it.
C12_Witness ==
    \E w \in Workers :
        /\ wpc[w] \in AfterGcDecision
        /\ wctx[w].version = <<-10>>
        /\ Len(gc_calls[w]) = 1

\* C12 as stated: garbage collection runs exactly once when the version is a
\* non-negative multiple of 10 and zero times otherwise, negative versions
\* such as -10 included.
C12_GcOnlyNonNegative ==
    \A w \in Workers :
        wpc[w] \in AfterGcDecision =>
            Len(gc_calls[w]) =
                IF /\ wctx[w].version # NoVersion
                   /\ wctx[w].version[1] >= 0
                   /\ MultipleOfInterval(wctx[w].version[1])
                  THEN 1 ELSE 0

\* ------------------------------------------------------------------ C13
\* C13: the queue never holds more than one message.  A message enters only
\* an empty queue, so a send issued while the slot is occupied completes only
\* after the pending message was removed, and a message leaves the queue
\* only by a worker's recv, which hands a compile request to that worker, or
\* by the drain of shutdown: it is never dropped or overwritten.  A request
\* is dequeued, and so its compile starts, only when no earlier request is
\* being processed, and requests are processed in the order they were sent.
C13_QueueInv ==
    /\ Len(queue) <= 1
    /\ \A w \in Workers :
          (wctx[w] # NoContext /\ queue # <<>>
              /\ Head(queue).kind = "CompilationContext")
             => wctx[w].id < Head(queue).id

C13_QueueStep ==
    queue' # queue =>
        \/ queue = <<>> /\ Len(queue') = 1
        \/ /\ queue # <<>>
           /\ queue' = Tail(queue)
           /\ \/ pc[ShutdownTask] = "drain"
              \/ \E w \in Workers :
                    /\ wpc[w] = "recv"
                    /\ \A w2 \in Workers : wctx[w2] = NoContext
                    /\ ~is_compiling
                    /\ IF Head(queue).kind = "CompilationContext"
                         THEN wctx'[w] = Head(queue)
                         ELSE wpc'[w] = "exited"

C13_BoundedQueue == []C13_QueueInv /\ [][C13_QueueStep]_vars

\* The slot holds a request while the worker is compiling an earlier one and
\* shutdown is blocked in its send of Terminate.
C13_Witness ==
    /\ pc[ShutdownTask] = "send_terminate"
    /\ Len(queue) = 1
    /\ Head(queue).kind = "CompilationContext"
    /\ \E w \in Workers : wpc[w] = "parse" /\ wctx[w].id < Head(queue).id

\* ------------------------------------------------------------------ C14
\* The worker has recorded the outcome of its request.
AfterOutcome == {"clear_compiling", "clear_retrigger", "check_empty", "notify"}

\* parse_project returned Err for the worker's request: parse_result is still
\* the default the worker gave it.
ParseFailed(w) ==
    \/ wpc[w] = "set_failed"
    \/ wpc[w] \in AfterOutcome /\ parse_result[w] = 0

C14_OutcomeInv ==
    \A w \in Workers :
        /\ ParseFailed(w) => session_result[wctx[w].session] = pre_result[w]
        /\ (wpc[w] \in AfterOutcome /\ parse_result[w] = 0)
              => last_compilation_state = "Failed"
        /\ (wpc[w] \in AfterOutcome /\ parse_result[w] # 0)
              => last_compilation_state = "Success"

C14_OutcomeStep ==
    /\ last_compilation_state' # last_compilation_state
          => \E w \in Workers : /\ wpc[w] \in {"set_success", "set_failed"}
                                /\ wpc'[w] = "clear_compiling"
    /\ \A w \in Workers :
          /\ (wpc[w] \in {"set_success", "set_failed"} /\ wpc'[w] # wpc[w])
                => last_compilation_state' # "Uninitialized"
          /\ (wpc[w] = "set_failed" /\ wpc'[w] # wpc[w])
                => wpc'[w] = "clear_compiling"
          /\ (wpc[w] \in {"check_empty", "notify"} /\ wpc'[w] # wpc[w])
                => wpc'[w] \in {"notify", "recv"}
          /\ (wpc[w] # "exited" /\ wpc'[w] = "exited")
                => /\ wpc[w] = "recv"
                   /\ queue # <<>>
                   /\ Head(queue).kind = "Terminate"

\* C14: a failed parse is absorbed.  It sets last_compilation_state to
\* Failed and leaves the session's stored parse results and diagnostics as
\* they were when the request was dequeued; the worker goes on through the
\* end of the iteration back to recv and leaves its loop only on Terminate.
\* A successful parse sets last_compilation_state to Success.
\* last_compilation_state is Uninitialized at the start, changes only where a
\* worker records the outcome of a request, and is never Uninitialized again
\* after that.
C14_FailureAbsorbed ==
    /\ last_compilation_state = "Uninitialized"
    /\ []C14_OutcomeInv
    /\ [][C14_OutcomeStep]_vars

\* A parse failed for a session that holds the results of an earlier success.
C14_Witness ==
    \E w \in Workers :
        /\ wpc[w] = "clear_retrigger"
        /\ parse_result[w] = 0
        /\ pre_result[w] # 0
        /\ session_result[wctx[w].session] = pre_result[w]
        /\ last_compilation_state = "Failed"

\* ------------------------------------------------------------------ C15
\* garbage_collect returned Err for the worker's request.
GcFailed(w) == gc_calls[w] = <<FALSE>>

C15_GcFailureInv ==
    \A w \in Workers :
        GcFailed(w) =>
            LET s == wctx[w].session IN
            /\ wpc[w] \in AfterGcDecision
            /\ wpc[w] \in {"set_compiling", "parse"}
                  => engines_clone[w] = pre_engines[w]
            /\ wpc[w] = "parse" => is_compiling
            /\ (wpc[w] \in AfterOutcome /\ parse_result[w] # 0)
                  => /\ engines[s] = [ver |-> wctx[w].id,
                                      collected |-> pre_engines[w].collected]
                     /\ session_result[s] = wctx[w].id
                     /\ last_compilation_state = "Success"

C15_GcFailureStep ==
    \A w \in Workers :
        /\ (wpc[w] = "gc" /\ wpc'[w] # "gc") => wpc'[w] = "set_compiling"
        /\ (wpc[w] = "set_compiling" /\ wpc'[w] # "set_compiling")
              => (wpc'[w] = "parse" /\ is_compiling')

\* C15: a failed garbage collection is not fatal.  After garbage_collect
\* returns Err the worker goes on to set is_compiling and to call the parse
\* with the working copy as it was cloned, not collected; when that parse
\* succeeds the live engines are replaced by its result, the result is
\* stored and last_compilation_state becomes Success.
C15_GcFailureNotFatal == []C15_GcFailureInv /\ [][C15_GcFailureStep]_vars

\* Garbage collection failed and the request still compiled and was swapped in.
C15_Witness ==
    \E w \in Workers :
        /\ GcFailed(w)
        /\ wpc[w] = "clear_compiling"
        /\ engines[wctx[w].session].ver = wctx[w].id
        /\ last_compilation_state = "Success"

\* ------------------------------------------------------------------ C16
\* The step in which worker w calls finished_compilation.notify_waiters().
Firing(w) == wpc[w] = "notify" /\ wpc'[w] = "recv"

\* Parts of C16 that do not depend on the queue at the firing itself: a
\* finished request whose is_empty test finds the queue empty is followed by
\* a firing, every firing wakes all registered waiters, and waiters are
\* woken by nothing else (not by the Terminate arm, not by shutdown's drain).
FiringFollowsEmptyTest ==
    /\ \A w \in Workers :
          /\ (wpc[w] = "check_empty" /\ wpc'[w] # wpc[w] /\ queue = <<>>)
                => wpc'[w] = "notify"
          /\ (wpc[w] = "notify" /\ wpc'[w] # wpc[w]) => Firing(w)
          /\ Firing(w) => subscribed' = {}
    /\ ~(subscribed \subseteq subscribed') => \E w \in Workers : Firing(w)

\* C16: the idle notification is fired by the worker at the end of a
\* finished request whose is_empty test found the queue empty, and at no
\* other time.  At every firing is_compiling is false, and the queue was
\* empty and is_compiling false when the worker made the test; a request
\* sent between the test and the firing may be pending at the firing.
C16_FiredAfterEmptyTest ==
    [][ /\ FiringFollowsEmptyTest
        /\ \A w \in Workers :
              /\ Firing(w) => ~is_compiling
              /\ (wpc[w] # "notify" /\ wpc'[w] = "notify")
                    => (wpc[w] = "check_empty" /\ queue = <<>> /\ ~is_compiling)
      ]_vars

\* The worker is about to fire with a waiter registered.
C16_Witness ==
    \E w \in Workers :
        /\ wpc[w] = "notify"
        /\ subscribed # {}
        /\ ~is_compiling

\* C16 as stated: at the instant of every firing is_compiling is false and
\* the queue is empty.
C16_QueueEmptyAtFiring ==
    [][ /\ FiringFollowsEmptyTest
        /\ \A w \in Workers : Firing(w) => (~is_compiling /\ queue = <<>>)
      ]_vars

\* ------------------------------------------------------------------ C17
\* The failures of url_to_session that happen before anything is inserted.
SetupErrors == {"ManifestFileNotFound", "ManifestDirNotFound", "InitError"}

\* Caller c's call ended with one of those errors: the caller holds no
\* session, and a Session the call constructed is not in the registry.
C17_FailedCallInv ==
    \A c \in Callers :
        /\ us_err[c] # "" => (us_pc[c] = "idle" /\ us_ret[c] = NoSession)
        /\ (us_err[c] \in SetupErrors /\ us_new[c] # NoSession)
              => \A r \in Roots : sessions[r] # us_new[c]

\* What the step that fails caller c's call does.
C17_FailingStep ==
    \A c \in Callers :
        /\ (us_pc[c] = "idle" /\ us_pc'[c] = "idle" /\ us_uri'[c] # us_uri[c])
              => us_err'[c] = ManifestDir(us_uri'[c])[1]
        /\ (us_err'[c] # us_err[c] /\ us_err'[c] # "")
              => /\ us_pc'[c] = "idle"
                 /\ us_ret'[c] = NoSession
                 /\ UNCHANGED <<queue, nenq>>
                 /\ us_err'[c] \in SetupErrors => sessions' = sessions
                 /\ us_err'[c] = "ManifestFileNotFound"
                       => (us_pc[c] = "idle" /\ us_uri'[c] = NoManifestUri)
                 /\ us_err'[c] = "ManifestDirNotFound"
                       => (us_pc[c] = "idle" /\ us_uri'[c] = NoParentUri)
                 /\ us_err'[c] = "InitError" => us_pc[c] = "init"
                 /\ us_err'[c] = "TranslateError" => us_pc[c] = "translate"

\* C17: when uri_and_session_from_workspace fails -- no manifest for the
\* URI, no directory for the manifest, Session::init fails, or the workspace
\* URI cannot be translated -- the call ends with that error and no session,
\* nothing is sent to the worker, and for the first three the registry is
\* left as it was.
C17_SetupFailure == []C17_FailedCallInv /\ [][C17_FailingStep]_vars

\* Session::init failed for a caller while the registry holds a session that
\* another call inserted.
C17_Witness ==
    \E c \in Callers :
        /\ us_err[c] = "InitError"
        /\ us_new[c] # NoSession
        /\ us_pc[c] = "idle"
        /\ \E r \in Roots : sessions[r] # NoSession

\* ------------------------------------------------------------------ C18
\* C18: on a server that has a client, every call of publish_diagnostics
\* sends the client exactly one list, also when the list is empty: with no
\* entry for the file, or with warnings and errors both hidden, the empty
\* list is sent.  On a server without a client nothing is sent.
C18_PublishInv ==
    /\ client => Len(client_published) = publish_calls
    /\ ~client => client_published = <<>>
    /\ (config.show_collected_tokens_as_warnings = "Default"
           /\ ~config.show_warnings /\ ~config.show_errors)
          => \A i \in 1..Len(client_published) : client_published[i] = <<>>

C18_PublishStep ==
    (client /\ publish_calls' = publish_calls + 1)
       => /\ Len(client_published') = Len(client_published) + 1
          /\ SubSeq(client_published', 1, Len(client_published))
                = client_published

C18_PublishedWithClient == []C18_PublishInv /\ [][C18_PublishStep]_vars

\* An empty list was sent to the client.
C18_Witness ==
    /\ client
    /\ publish_calls > 0
    /\ client_published[Len(client_published)] = <<>>

\* C18 as stated: every call results in exactly one publish.
C18_AlwaysPublished == Len(client_published) = publish_calls

\* ------------------------------------------------------------------ C19
\* The write lock of a session's engines is held only while a worker is in
\* the swap for a request of that session, so a reader of another session's
\* engines is never kept out by the compile.
C19_LockInv ==
    \A s \in SessionIds :
        rw[s].writer =>
            \E w \in Workers : wctx[w].session = s /\ wpc[w] = "swapping"

\* A session's engines, its stored results and the writer side of its lock
\* change only in a step of a worker that is processing a request of that
\* session.
C19_SessionStep ==
    \A s \in SessionIds :
        (\/ engines'[s] # engines[s]
         \/ session_result'[s] # session_result[s]
         \/ rw'[s].writer # rw[s].writer)
           => \E w \in Workers :
                 /\ wctx[w].session = s
                 /\ wpc[w] \in {"swap", "swapping", "write_result"}
                 /\ wpc'[w] # wpc[w]

\* C19: sessions are isolated from each other's compiles.  While the worker
\* processes a request of session A, the engines and the stored parse
\* results and diagnostics of every other session B do not change, and the
\* lock of B's engines is not write-held, so a reader of B is not blocked.
C19_SessionsIsolated == []C19_LockInv /\ [][C19_SessionStep]_vars

\* A task holds the read lock of B's engines while the worker is inside the
\* swap for A.
C19_Witness ==
    \E w \in Workers :
        /\ wpc[w] = "swapping"
        /\ rd_session # NoSession
        /\ rd_session # wctx[w].session
        /\ rw[rd_session].readers > 0

\* ------------------------------------------------------------------ C20
\* C20: whenever is_compiling is false, the live engines and the stored
\* parse results of every session come from the same compile (or both are
\* initial); the state between the swap and write_parse_result, new engines
\* beside old results, occurs only while is_compiling is true.
C20_EnginesMatchResults ==
    ~is_compiling =>
        \A s \in SessionIds : engines[s].ver = session_result[s]

\* is_compiling has been reset after a compile that replaced the engines and
\* the stored results of a session.
C20_Witness ==
    /\ ~is_compiling
    /\ \E w \in Workers :
          /\ wpc[w] = "clear_retrigger"
          /\ engines[wctx[w].session].ver = wctx[w].id
          /\ session_result[wctx[w].session] = wctx[w].id

====
